---- MODULE Spec2Model ----
(***************************************************************************)
(* A model of IPython/zmq/kernelmanager.py: the three channel threads      *)
(* (SubSocketChannel, XReqSocketChannel, RepSocketChannel), each with its  *)
(* own IOLoop, and the KernelManager that owns them and the kernel         *)
(* process.  The owning (frontend) thread is one sequential thread; its    *)
(* position is opc.  Each channel thread's position is pc[c].              *)
(***************************************************************************)
EXTENDS Integers, Sequences, FiniteSets, TLC

\* ------------------------------------------------------------------------
\* Bounds of the model.
MaxMsgs == 2       \* requests the owning thread submits
MaxFrames == 2     \* frames the kernel side sends to each channel
MaxProcs == 2      \* kernel processes that ever exist
MaxPort == 1       \* ports are 0..MaxPort; 0 means "OS-assigned"
MaxCallbacks == 2  \* callbacks add_io_state/drop_io_state leave pending
MaxCallers == 2    \* threads that call flush() on the sub channel

\* ------------------------------------------------------------------------
\* Program constants.
LOCALHOST == "127.0.0.1"
REMOTEHOST == "10.0.0.7"
POLLIN == "POLLIN"
POLLOUT == "POLLOUT"
POLLERR == "POLLERR"

Flags == {POLLIN, POLLOUT, POLLERR}
Chans == {"sub", "xreq", "rep"}
LoopChans == {"sub", "xreq"}       \* the channels that define run()
Ports == 0..MaxPort
None == "None"
\* The addresses given to the address setter: None, and one remote address.
AddrInputs == {None, <<REMOTEHOST, 0>>}
NoKernel == 0                 \* _kernel is None
NoMsg == [msg_id |-> 0, msg_type |-> "none", content |-> <<>>]  \* no msg held
Handles == 1..MaxProcs
Signals == {2}
Codes == {"x=1"}
Callers == 1..MaxCallers

VARIABLES
    is_listening,   \* KernelManager.is_listening
    thread,         \* Thread state of each channel: "new", "alive", "dead"
    pc,             \* position of each channel thread inside run()
    stopped,        \* history: stop() has returned for the channel
    ioloop,         \* self.ioloop is set (not None)
    loop_stop,      \* IOLoop.stop() has been requested
    iostate,        \* self.iostate, the interest bitmask (as a set of flags)
    registered,     \* the mask the IOLoop holds for the socket
    callbacks,      \* callbacks posted with IOLoop.add_callback, in order
    events,         \* the events of the dispatch in progress
    address,        \* self._address
    command_queue,  \* XReqSocketChannel.command_queue
    send_msg,       \* the local msg of _handle_send
    wire,           \* frames sent with socket.send_json, in order
    enqueued,       \* history: messages put on command_queue, in order
    next_id,        \* the session's next message id
    inbox,          \* frames waiting on each socket
    handled,        \* messages passed to call_handlers, in order
    fault,          \* history: _handle_err has raised on the channel
    kernel,         \* KernelManager._kernel
    procs,          \* each process: "none", "live", "killed"
    signalled,      \* history: <<handle, signum>> forwarded by send_signal
    launched,       \* history: the last launch_kernel call, the two ports
                    \* given and the <<kernel, xrep, pub>> returned, as one tuple
    opc,            \* position of the owning thread
    ostops,         \* channels the owning thread still has to stop
    op,             \* the last call of the owning thread
    err,            \* how that call ended: "none" or the error raised
    ret,            \* what that call returned: a message id, or 0 for None
    flushed,        \* SubSocketChannel._flushed
    fpc,            \* position of each thread that calls flush()
    flush_i,        \* flush's loop index i of each caller
    timed_out,      \* time.time() has reached the caller's stop_time
    passes,         \* history: loop passes that ran a marker of the caller
    ferr,           \* how the caller's flush() ended
    drain           \* history: <<messages handled, frames waiting>> when the
                    \* running _handle_recv of the sub channel was entered

mgrVars == <<is_listening>>
threadVars == <<thread, pc, stopped>>
loopVars == <<ioloop, loop_stop, iostate, registered, callbacks, events>>
addrVars == <<address>>
reqVars == <<command_queue, send_msg, wire, enqueued, next_id>>
inVars == <<inbox, handled>>
kernelVars == <<kernel, procs, signalled, launched>>
ownerVars == <<opc, ostops, op, err, ret>>
flushVars == <<flushed, fpc, flush_i, timed_out, passes, ferr>>
subVars == <<flushVars, drain>>
vars == <<mgrVars, threadVars, loopVars, addrVars, reqVars, inVars, fault,
          kernelVars, ownerVars, subVars>>

IsPrefix(s, t) == Len(s) <= Len(t) /\ \A i \in 1..Len(s) : s[i] = t[i]

\* ------------------------------------------------------------------------
\* ZmqSocketChannel.__init__ and the KernelManager's traits: the state after
\* construction.  The address property is set to None, which stores the default.
DefaultAddress == <<LOCALHOST, 0>>

Init ==
    /\ is_listening = FALSE
    /\ thread = [c \in Chans |-> "new"]
    /\ pc = [c \in Chans |-> "init"]
    /\ stopped = [c \in Chans |-> FALSE]
    /\ ioloop = [c \in Chans |-> FALSE]
    /\ loop_stop = [c \in Chans |-> FALSE]
    /\ iostate = [c \in Chans |-> {}]
    /\ registered = [c \in Chans |-> {}]
    /\ callbacks = [c \in Chans |-> <<>>]
    /\ events = [c \in Chans |-> {}]
    /\ address = [c \in Chans |-> DefaultAddress]
    /\ command_queue = <<>>
    /\ send_msg = NoMsg
    /\ wire = <<>>
    /\ enqueued = <<>>
    /\ next_id = 1
    /\ inbox = [c \in Chans |-> <<>>]
    /\ handled = [c \in Chans |-> <<>>]
    /\ fault = [c \in Chans |-> FALSE]
    /\ kernel = NoKernel
    /\ procs = [h \in Handles |-> "none"]
    /\ signalled = {}
    /\ launched = <<>>
    /\ opc = "idle"
    /\ ostops = <<>>
    /\ op = "none"
    /\ err = "none"
    /\ ret = 0
    /\ flushed = FALSE
    /\ fpc = [t \in Callers |-> "idle"]
    /\ flush_i = [t \in Callers |-> 0]
    /\ timed_out = [t \in Callers |-> FALSE]
    /\ passes = [t \in Callers |-> 0]
    /\ ferr = [t \in Callers |-> "none"]
    /\ drain = <<0, 0>>

\* ------------------------------------------------------------------------
\* threading.Thread, as the channels use it.
is_alive(c) == thread[c] = "alive"

\* The thread's run() has returned, or an exception has left it.
ThreadExit(c) ==
    /\ thread' = [thread EXCEPT ![c] = "dead"]
    /\ pc' = [pc EXCEPT ![c] = "done"]

\* ------------------------------------------------------------------------
\* The callbacks add_io_state and drop_io_state post.  Each takes the iostate
\* and the loop's registered mask and gives both after the callback.
\* An add callback that changes iostate and skips ioloop.update_handler.
add_io_state_callback_no_update(state, st, reg) ==
    IF st \cap {state} = {}
    THEN <<st \cup {state}, reg>>
    ELSE <<st, reg>>

add_io_state_callback(state, st, reg) ==
    IF st \cap {state} = {}
    THEN <<st \cup {state}, st \cup {state}>>
    ELSE <<st, reg>>

\* A drop callback that leaves the mask as it is.
drop_io_state_callback_kept(state, st, reg) == <<st, reg>>

drop_io_state_callback(state, st, reg) ==
    IF st \cap {state} # {}
    THEN <<st \ {state}, st \ {state}>>
    ELSE <<st, reg>>

\* A posted callback is <<"add", flag>>, <<"drop", flag>> or flush's marker
\* <<"flush", caller>>, which leaves the mask alone.
RunCallback(cb, st, reg) ==
    IF cb[1] = "add" THEN add_io_state_callback(cb[2], st, reg)
    ELSE IF cb[1] = "drop" THEN drop_io_state_callback(cb[2], st, reg)
    ELSE <<st, reg>>

\* SubSocketChannel._flush, the marker: self._flushed = True.  Markers of the
\* callbacks cbs, and those among them that caller t posted.
Markers(cbs) == SelectSeq(cbs, LAMBDA cb : cb[1] = "flush")
MarkersOf(cbs, t) == SelectSeq(cbs, LAMBDA cb : cb = <<"flush", t>>)

\* IOLoop runs the callbacks posted so far, in posting order.
RECURSIVE RunCallbacks(_, _, _)
RunCallbacks(cbs, st, reg) ==
    IF cbs = <<>> THEN <<st, reg>>
    ELSE LET r == RunCallback(Head(cbs), st, reg)
         IN RunCallbacks(Tail(cbs), r[1], r[2])

\* add_io_state / drop_io_state: self.ioloop.add_callback(callback).
PostCallback(c, cb) == callbacks' = [callbacks EXCEPT ![c] = Append(@, cb)]

\* ------------------------------------------------------------------------
\* SubSocketChannel.run and XReqSocketChannel.run, on the channel's thread.

\* The socket is created, configured and connected.
RunSocket(c) ==
    /\ c \in LoopChans
    /\ thread[c] = "alive" /\ pc[c] = "r_socket"
    /\ pc' = [pc EXCEPT ![c] = "r_ioloop"]
    /\ UNCHANGED <<mgrVars, thread, stopped, loopVars, addrVars, reqVars,
                   inVars, fault, kernelVars, ownerVars, subVars>>

\* self.ioloop = ioloop.IOLoop()
RunIOLoop(c) ==
    /\ c \in LoopChans
    /\ thread[c] = "alive" /\ pc[c] = "r_ioloop"
    /\ ioloop' = [ioloop EXCEPT ![c] = TRUE]
    /\ pc' = [pc EXCEPT ![c] = "r_handler"]
    /\ UNCHANGED <<mgrVars, thread, stopped, loop_stop, iostate, registered,
                   callbacks, events, addrVars, reqVars, inVars, fault,
                   kernelVars, ownerVars, subVars>>

\* self.iostate = POLLIN|POLLERR; add_handler(socket, _handle_events, iostate);
\* ioloop.start() is entered.
RunAddHandler(c) ==
    /\ c \in LoopChans
    /\ thread[c] = "alive" /\ pc[c] = "r_handler"
    /\ iostate' = [iostate EXCEPT ![c] = {POLLIN, POLLERR}]
    /\ registered' = [registered EXCEPT ![c] = {POLLIN, POLLERR}]
    /\ pc' = [pc EXCEPT ![c] = "loop"]
    /\ UNCHANGED <<mgrVars, thread, stopped, ioloop, loop_stop, callbacks,
                   events, addrVars, reqVars, inVars, fault, kernelVars,
                   ownerVars, subVars>>

\* RepSocketChannel defines no run(): Thread.run returns at once.
RepRun ==
    /\ thread["rep"] = "alive" /\ pc["rep"] = "run"
    /\ ThreadExit("rep")
    /\ UNCHANGED <<mgrVars, stopped, loopVars, addrVars, reqVars, inVars,
                   fault, kernelVars, ownerVars, subVars>>

\* ------------------------------------------------------------------------
\* The IOLoop, on the channel's thread.  One iteration runs the posted
\* callbacks, leaves the loop if stop() was requested, and otherwise polls.
LoopIterate(c) ==
    /\ c \in LoopChans
    /\ thread[c] = "alive" /\ pc[c] = "loop"
    /\ LET r == RunCallbacks(callbacks[c], iostate[c], registered[c])
       IN /\ iostate' = [iostate EXCEPT ![c] = r[1]]
          /\ registered' = [registered EXCEPT ![c] = r[2]]
    /\ flushed' = (flushed \/ Markers(callbacks[c]) # <<>>)
    /\ passes' = [t \in Callers |->
                    IF MarkersOf(callbacks[c], t) # <<>>
                    THEN passes[t] + 1 ELSE passes[t]]
    /\ callbacks' = [callbacks EXCEPT ![c] = <<>>]
    /\ IF loop_stop[c]
       THEN ThreadExit(c)
       ELSE /\ pc' = [pc EXCEPT ![c] = "poll"]
            /\ UNCHANGED thread
    /\ UNCHANGED <<mgrVars, stopped, ioloop, loop_stop, events, addrVars,
                   reqVars, inVars, fault, kernelVars, ownerVars, fpc,
                   flush_i, timed_out, ferr, drain>>

\* What the socket can report: it is writable, it is readable when a frame
\* waits, and it may be in error.
Ready(c) == {POLLOUT, POLLERR} \cup (IF inbox[c] # <<>> THEN {POLLIN} ELSE {})

\* The poll returns events among those registered; none is a timeout.
PollReturns(c, ev) ==
    /\ c \in LoopChans
    /\ thread[c] = "alive" /\ pc[c] = "poll"
    /\ ev \subseteq (registered[c] \cap Ready(c))
    /\ events' = [events EXCEPT ![c] = ev]
    /\ pc' = [pc EXCEPT ![c] = IF ev = {} THEN "loop" ELSE "handle"]
    /\ UNCHANGED <<mgrVars, thread, stopped, ioloop, loop_stop, iostate,
                   registered, callbacks, addrVars, reqVars, inVars, fault,
                   kernelVars, ownerVars, subVars>>

Poll(c) == \E ev \in SUBSET Flags : PollReturns(c, ev)

\* Where _handle_events goes after the error test, and after _handle_send.
AfterErrTest(c) ==
    IF c = "xreq" /\ POLLOUT \in events[c] THEN "send_get"
    ELSE IF POLLIN \in events[c] THEN "recv"
    ELSE "loop"

AfterSend(c) == IF POLLIN \in events[c] THEN "recv" ELSE "loop"

\* _handle_events with POLLERR set: _handle_err raises zmq.ZMQError and the
\* handler is left before _handle_send and _handle_recv.  The exception goes
\* to the IOLoop, which either logs it and goes on with the next iteration or
\* lets it end run(); nothing of the channel records it.
HandleErr(c) ==
    /\ c \in LoopChans
    /\ thread[c] = "alive" /\ pc[c] = "handle"
    /\ POLLERR \in events[c]
    /\ fault' = [fault EXCEPT ![c] = TRUE]
    /\ \/ /\ pc' = [pc EXCEPT ![c] = "loop"]
          /\ UNCHANGED thread
       \/ ThreadExit(c)
    /\ UNCHANGED <<mgrVars, stopped, loopVars, addrVars, reqVars, inVars,
                   kernelVars, ownerVars, subVars>>

\* _handle_events without POLLERR.
HandleEvents(c) ==
    /\ c \in LoopChans
    /\ thread[c] = "alive" /\ pc[c] = "handle"
    /\ POLLERR \notin events[c]
    /\ pc' = [pc EXCEPT ![c] = AfterErrTest(c)]
    /\ drain' = IF c = "sub" /\ AfterErrTest(c) = "recv"
                THEN <<Len(handled[c]), Len(inbox[c])>> ELSE drain
    /\ UNCHANGED <<mgrVars, thread, stopped, loopVars, addrVars, reqVars,
                   inVars, fault, kernelVars, ownerVars, flushVars>>

\* ------------------------------------------------------------------------
\* XReqSocketChannel._handle_send, on the channel's thread.

\* A get that takes the newest message instead of the oldest.
QueueGetNewest(q) == <<q[Len(q)], SubSeq(q, 1, Len(q) - 1)>>

\* msg = self.command_queue.get(False), or Empty.
QueueGet(q) == <<Head(q), Tail(q)>>

HandleSendGet ==
    /\ thread["xreq"] = "alive" /\ pc["xreq"] = "send_get"
    /\ IF command_queue # <<>>
       THEN /\ send_msg' = QueueGet(command_queue)[1]
            /\ command_queue' = QueueGet(command_queue)[2]
            /\ pc' = [pc EXCEPT !["xreq"] = "send_send"]
       ELSE /\ pc' = [pc EXCEPT !["xreq"] = "send_empty"]
            /\ UNCHANGED <<send_msg, command_queue>>
    /\ UNCHANGED <<mgrVars, thread, stopped, loopVars, addrVars, wire,
                   enqueued, next_id, inVars, fault, kernelVars, ownerVars,
                   subVars>>

\* self.socket.send_json(msg)
HandleSendSend ==
    /\ thread["xreq"] = "alive" /\ pc["xreq"] = "send_send"
    /\ wire' = Append(wire, send_msg)
    /\ send_msg' = NoMsg
    /\ pc' = [pc EXCEPT !["xreq"] = "send_empty"]
    /\ UNCHANGED <<mgrVars, thread, stopped, loopVars, addrVars, command_queue,
                   enqueued, next_id, inVars, fault, kernelVars, ownerVars,
                   subVars>>

\* if self.command_queue.empty():
HandleSendEmpty ==
    /\ thread["xreq"] = "alive" /\ pc["xreq"] = "send_empty"
    /\ pc' = [pc EXCEPT !["xreq"] =
                 IF command_queue = <<>> THEN "send_drop" ELSE AfterSend("xreq")]
    /\ UNCHANGED <<mgrVars, thread, stopped, loopVars, addrVars, reqVars,
                   inVars, fault, kernelVars, ownerVars, subVars>>

\*     self.drop_io_state(POLLOUT)
HandleSendDrop ==
    /\ thread["xreq"] = "alive" /\ pc["xreq"] = "send_drop"
    /\ PostCallback("xreq", <<"drop", POLLOUT>>)
    /\ pc' = [pc EXCEPT !["xreq"] = AfterSend("xreq")]
    /\ UNCHANGED <<mgrVars, thread, stopped, ioloop, loop_stop, iostate,
                   registered, events, addrVars, reqVars, inVars, fault,
                   kernelVars, ownerVars, subVars>>

\* ------------------------------------------------------------------------
\* _handle_recv, on the channel's thread.  call_handlers is the subclass's
\* hook; handled records what it was given.

\* XReqSocketChannel._handle_recv: one blocking receive.
XReqHandleRecv ==
    /\ thread["xreq"] = "alive" /\ pc["xreq"] = "recv"
    /\ inbox["xreq"] # <<>>
    /\ handled' = [handled EXCEPT !["xreq"] = Append(@, Head(inbox["xreq"]))]
    /\ inbox' = [inbox EXCEPT !["xreq"] = Tail(@)]
    /\ pc' = [pc EXCEPT !["xreq"] = "loop"]
    /\ UNCHANGED <<mgrVars, thread, stopped, loopVars, addrVars, reqVars,
                   fault, kernelVars, ownerVars, subVars>>

\* A _handle_recv that takes one frame and returns, like the request channel's.
SubHandleRecvOnce ==
    /\ thread["sub"] = "alive" /\ pc["sub"] = "recv"
    /\ inbox["sub"] # <<>>
    /\ handled' = [handled EXCEPT !["sub"] = Append(@, Head(inbox["sub"]))]
    /\ inbox' = [inbox EXCEPT !["sub"] = Tail(@)]
    /\ pc' = [pc EXCEPT !["sub"] = "loop"]
    /\ UNCHANGED <<mgrVars, thread, stopped, loopVars, addrVars, reqVars,
                   fault, kernelVars, ownerVars, subVars>>

\* SubSocketChannel._handle_recv: one turn of the while loop, a non-blocking
\* receive that either gives a frame or raises ZMQError and breaks.
SubHandleRecv ==
    /\ thread["sub"] = "alive" /\ pc["sub"] = "recv"
    /\ IF inbox["sub"] # <<>>
       THEN /\ handled' = [handled EXCEPT !["sub"] = Append(@, Head(inbox["sub"]))]
            /\ inbox' = [inbox EXCEPT !["sub"] = Tail(@)]
            /\ UNCHANGED pc
       ELSE /\ pc' = [pc EXCEPT !["sub"] = "loop"]
            /\ UNCHANGED <<inbox, handled>>
    /\ UNCHANGED <<mgrVars, thread, stopped, loopVars, addrVars, reqVars,
                   fault, kernelVars, ownerVars, subVars>>

\* The kernel side sends a frame to the channel's socket.
FramesSeen(c) == Len(handled[c]) + Len(inbox[c])

KernelSend(c) ==
    /\ c \in LoopChans
    /\ FramesSeen(c) < MaxFrames
    /\ inbox' = [inbox EXCEPT ![c] = Append(@, FramesSeen(c) + 1)]
    /\ UNCHANGED <<mgrVars, threadVars, loopVars, addrVars, reqVars, handled,
                   fault, kernelVars, ownerVars, subVars>>

\* ------------------------------------------------------------------------
\* The owning thread.  A call starts at opc = "idle"; op names it and, once
\* opc is "idle" again, err tells how it ended and ret what it returned.
StartOrder == <<"sub", "xreq", "rep">>
OrderOf(c) == CHOOSE i \in 1..3 : StartOrder[i] = c
RunEntry(c) == IF c \in LoopChans THEN "r_socket" ELSE "run"

Called(name) ==
    /\ opc = "idle"
    /\ op' = name

Returns(e, r) ==
    /\ opc' = "idle"
    /\ ostops' = <<>>
    /\ err' = e
    /\ ret' = r

\* Thread.start() on a channel: a thread is started once; a second start
\* raises RuntimeError.
ChannelStart(c) ==
    /\ Called("start")
    /\ IF thread[c] = "new"
       THEN /\ thread' = [thread EXCEPT ![c] = "alive"]
            /\ pc' = [pc EXCEPT ![c] = RunEntry(c)]
            /\ Returns("none", 0)
       ELSE /\ Returns("ThreadAlreadyStarted", 0)
            /\ UNCHANGED <<thread, pc>>
    /\ UNCHANGED <<mgrVars, stopped, loopVars, addrVars, reqVars, inVars,
                   fault, kernelVars, subVars>>

\* KernelManager.start_listening: the channels are started in order; the
\* first start() that raises ends the call.
FirstStarted == IF \E i \in 1..3 : thread[StartOrder[i]] # "new"
                THEN CHOOSE i \in 1..3 :
                        /\ thread[StartOrder[i]] # "new"
                        /\ \A j \in 1..(i - 1) : thread[StartOrder[j]] = "new"
                ELSE 4

\* start_listening without the test of is_listening.
start_listening_unguarded ==
    /\ Called("start_listening")
    /\ is_listening' = TRUE
    /\ thread' = [c \in Chans |->
         IF OrderOf(c) < FirstStarted THEN "alive" ELSE thread[c]]
    /\ pc' = [c \in Chans |->
         IF OrderOf(c) < FirstStarted THEN RunEntry(c) ELSE pc[c]]
    /\ Returns(IF FirstStarted = 4 THEN "none" ELSE "ThreadAlreadyStarted", 0)
    /\ UNCHANGED <<stopped, loopVars, addrVars, reqVars, inVars, fault,
                   kernelVars, subVars>>

start_listening ==
    /\ Called("start_listening")
    /\ IF is_listening
       THEN /\ Returns("AlreadyListening", 0)
            /\ UNCHANGED <<is_listening, thread, pc>>
       ELSE /\ is_listening' = TRUE
            /\ thread' = [c \in Chans |->
                 IF OrderOf(c) < FirstStarted THEN "alive" ELSE thread[c]]
            /\ pc' = [c \in Chans |->
                 IF OrderOf(c) < FirstStarted THEN RunEntry(c) ELSE pc[c]]
            /\ Returns(IF FirstStarted = 4 THEN "none" ELSE "ThreadAlreadyStarted",
                       0)
    /\ UNCHANGED <<stopped, loopVars, addrVars, reqVars, inVars, fault,
                   kernelVars, subVars>>

\* stop_listening without the test of is_listening.
stop_listening_unguarded ==
    /\ Called("stop_listening")
    /\ is_listening' = FALSE
    /\ opc' = "stop"
    /\ ostops' = StartOrder
    /\ err' = "none"
    /\ ret' = 0
    /\ UNCHANGED <<threadVars, loopVars, addrVars, reqVars, inVars, fault,
                   kernelVars, subVars>>

\* KernelManager.stop_listening: the flag is cleared, then each channel is
\* stopped in turn (ChannelStopLoop, ChannelJoin).
stop_listening ==
    /\ Called("stop_listening")
    /\ IF is_listening
       THEN /\ is_listening' = FALSE
            /\ opc' = "stop"
            /\ ostops' = StartOrder
            /\ err' = "none"
            /\ ret' = 0
       ELSE /\ Returns("none", 0)
            /\ UNCHANGED is_listening
    /\ UNCHANGED <<threadVars, loopVars, addrVars, reqVars, inVars, fault,
                   kernelVars, subVars>>

\* stop() called on one channel.
ChannelStop(c) ==
    /\ Called("stop")
    /\ opc' = "stop"
    /\ ostops' = <<c>>
    /\ err' = "none"
    /\ ret' = 0
    /\ UNCHANGED <<mgrVars, threadVars, loopVars, addrVars, reqVars, inVars,
                   fault, kernelVars, subVars>>

\* SubSocketChannel.stop / XReqSocketChannel.stop: self.ioloop.stop(), which
\* is an AttributeError while self.ioloop is still None.  RepSocketChannel
\* has the base stop(), which only joins.
ChannelStopLoop ==
    /\ opc = "stop"
    /\ LET c == Head(ostops)
       IN IF c \in LoopChans /\ ~ioloop[c]
          THEN /\ Returns("AttributeError", 0)
               /\ UNCHANGED loop_stop
          ELSE /\ loop_stop' = [loop_stop EXCEPT ![c] = (c \in LoopChans) \/ @]
               /\ opc' = "join"
               /\ UNCHANGED <<ostops, err, ret>>
    /\ UNCHANGED <<mgrVars, threadVars, ioloop, iostate, registered, callbacks,
                   events, addrVars, reqVars, inVars, fault, kernelVars, op,
                   subVars>>

\* ZmqSocketChannel.stop: self.join() returns when the thread has ended, and
\* raises RuntimeError for a thread that was never started.
ChannelJoin ==
    /\ opc = "join"
    /\ LET c == Head(ostops)
       IN /\ thread[c] # "alive"
          /\ IF thread[c] = "new"
             THEN /\ Returns("JoinBeforeStart", 0)
                  /\ UNCHANGED stopped
             ELSE /\ stopped' = [stopped EXCEPT ![c] = TRUE]
                  /\ IF Tail(ostops) = <<>>
                     THEN Returns("none", 0)
                     ELSE /\ opc' = "stop"
                          /\ ostops' = Tail(ostops)
                          /\ UNCHANGED <<err, ret>>
    /\ UNCHANGED <<mgrVars, thread, pc, loopVars, addrVars, reqVars, inVars,
                   fault, kernelVars, op, subVars>>

\* ------------------------------------------------------------------------
\* The address property.
get_address(c) == address[c]

\* A setter without the test of is_alive().
set_adresss_unguarded(c, a) ==
    /\ Called("set_address")
    /\ address' = [address EXCEPT
                      ![c] = IF a = None THEN <<LOCALHOST, 0>> ELSE a]
    /\ Returns("none", 0)
    /\ UNCHANGED <<mgrVars, threadVars, loopVars, reqVars, inVars, fault,
                   kernelVars, subVars>>

set_adresss(c, a) ==
    /\ Called("set_address")
    /\ IF is_alive(c)
       THEN /\ Returns("AlreadyRunning", 0)
            /\ UNCHANGED address
       ELSE /\ address' = [address EXCEPT
                             ![c] = IF a = None THEN <<LOCALHOST, 0>> ELSE a]
            /\ Returns("none", 0)
    /\ UNCHANGED <<mgrVars, threadVars, loopVars, reqVars, inVars, fault,
                   kernelVars, subVars>>

\* ------------------------------------------------------------------------
\* Requests on the Request Channel, called on the owning thread.

\* session.msg(msg_type, content): an envelope with a fresh message id.
SessionMsg(msg_type, content) ==
    [msg_id |-> next_id, msg_type |-> msg_type, content |-> content]

\* _queue_request, first statement: self.command_queue.put(msg).
QueuePut(name, msg) ==
    /\ Called(name)
    /\ Len(enqueued) < MaxMsgs
    /\ command_queue' = Append(command_queue, msg)
    /\ enqueued' = Append(enqueued, msg)
    /\ next_id' = next_id + 1
    /\ opc' = "queue_add"
    /\ err' = "none"
    /\ ret' = 0
    /\ UNCHANGED <<mgrVars, threadVars, loopVars, addrVars, send_msg, wire,
                   inVars, fault, kernelVars, ostops, subVars>>

execute ==
    \E code \in Codes :
        QueuePut("execute", SessionMsg("execute_request", <<"code", code>>))

complete ==
    \E text \in Codes :
        QueuePut("complete",
                 SessionMsg("complete_request", <<"text", text, "line", text>>))

object_info ==
    \E oname \in Codes :
        QueuePut("object_info",
                 SessionMsg("object_info_request", <<"oname", oname>>))

\* _queue_request, second statement: self.add_io_state(POLLOUT), which is
\* self.ioloop.add_callback(...) and an AttributeError while self.ioloop is
\* None; then the request method returns msg['header']['msg_id'].
QueueRequestAdd ==
    /\ opc = "queue_add"
    /\ IF ioloop["xreq"]
       THEN /\ PostCallback("xreq", <<"add", POLLOUT>>)
            /\ Returns("none", enqueued[Len(enqueued)].msg_id)
       ELSE /\ Returns("AttributeError", 0)
            /\ UNCHANGED callbacks
    /\ UNCHANGED <<mgrVars, threadVars, ioloop, loop_stop, iostate, registered,
                   events, addrVars, reqVars, inVars, fault, kernelVars, op,
                   subVars>>

\* ------------------------------------------------------------------------
\* The kernel process.
has_kernel == kernel # NoKernel

\* A process that does not exist yet; handles are given out in order.
IsNewProcess(h) ==
    /\ procs[h] = "none"
    /\ \A g \in 1..(h - 1) : procs[g] # "none"

\* launch_kernel(xrep_port, pub_port): a new process and the two ports it
\* bound.
LaunchKernel(h, xrep, pub) ==
    /\ IsNewProcess(h)
    /\ xrep \in Ports \ {0}
    /\ pub \in Ports \ {0}

\* KernelManager.set_kernel with an existing kernel process.
set_kernel(h) ==
    /\ Called("set_kernel")
    /\ procs[h] = "live" \/ IsNewProcess(h)
    /\ kernel' = h
    /\ procs' = [procs EXCEPT ![h] = "live"]
    /\ Returns("none", 0)
    /\ UNCHANGED <<mgrVars, threadVars, loopVars, addrVars, reqVars, inVars,
                   fault, signalled, launched, subVars>>

\* kill_kernel that kills the process and keeps the handle.
kill_kernel_keeps_handle ==
    /\ Called("kill_kernel")
    /\ IF kernel # NoKernel
       THEN /\ procs' = [procs EXCEPT ![kernel] = "killed"]
            /\ Returns("none", 0)
       ELSE /\ Returns("NoKernelRunning", 0)
            /\ UNCHANGED procs
    /\ UNCHANGED <<mgrVars, threadVars, loopVars, addrVars, reqVars, inVars,
                   fault, kernel, signalled, launched, subVars>>

kill_kernel ==
    /\ Called("kill_kernel")
    /\ IF kernel # NoKernel
       THEN /\ procs' = [procs EXCEPT ![kernel] = "killed"]
            /\ kernel' = NoKernel
            /\ Returns("none", 0)
       ELSE /\ Returns("NoKernelRunning", 0)
            /\ UNCHANGED <<kernel, procs>>
    /\ UNCHANGED <<mgrVars, threadVars, loopVars, addrVars, reqVars, inVars,
                   fault, signalled, launched, subVars>>

\* signal_kernel that does nothing, silently, when no kernel is held.
signal_kernel_silent(signum) ==
    /\ Called("signal_kernel")
    /\ signalled' = IF kernel # NoKernel
                    THEN signalled \cup {<<kernel, signum>>} ELSE signalled
    /\ Returns("none", 0)
    /\ UNCHANGED <<mgrVars, threadVars, loopVars, addrVars, reqVars, inVars,
                   fault, kernel, procs, launched, subVars>>

signal_kernel(signum) ==
    /\ Called("signal_kernel")
    /\ IF kernel # NoKernel
       THEN /\ signalled' = signalled \cup {<<kernel, signum>>}
            /\ Returns("none", 0)
       ELSE /\ Returns("NoKernelRunning", 0)
            /\ UNCHANGED signalled
    /\ UNCHANGED <<mgrVars, threadVars, loopVars, addrVars, reqVars, inVars,
                   fault, kernel, procs, launched, subVars>>

\* start_kernel's host test, on the request address only.
RemoteHostXReqOnly(xreq, sub) == xreq[1] # LOCALHOST

\* if xreq[0] != LOCALHOST or sub[0] != LOCALHOST
RemoteHost(xreq, sub) == xreq[1] # LOCALHOST \/ sub[1] # LOCALHOST

\* An address that keeps the port "OS-assigned" instead of the bound one.
LaunchedAddressUnset(port) == <<LOCALHOST, 0>>

\* (LOCALHOST, xrep) and (LOCALHOST, pub)
LaunchedAddress(port) == <<LOCALHOST, port>>

\* KernelManager.start_kernel: the host test, the launch, set_kernel, then
\* the two address setters, each of which raises on a live channel thread.
start_kernel ==
    /\ Called("start_kernel")
    /\ LET xreq == get_address("xreq")
           sub == get_address("sub")
       IN IF RemoteHost(xreq, sub)
          THEN /\ Returns("RemoteLaunchUnsupported", 0)
               /\ UNCHANGED <<kernel, procs, launched, address>>
          ELSE \E h \in Handles, xrep \in Ports, pub \in Ports :
               /\ LaunchKernel(h, xrep, pub)
               /\ launched' = <<xreq[2], sub[2], h, xrep, pub>>
               /\ procs' = [procs EXCEPT ![h] = "live"]
               /\ kernel' = h
               /\ IF is_alive("xreq")
                  THEN /\ Returns("AlreadyRunning", 0)
                       /\ UNCHANGED address
                  ELSE IF is_alive("sub")
                  THEN /\ Returns("AlreadyRunning", 0)
                       /\ address' = [address EXCEPT
                                        !["xreq"] = LaunchedAddress(xrep)]
                  ELSE /\ Returns("none", 0)
                       /\ address' = [address EXCEPT
                                        !["xreq"] = LaunchedAddress(xrep),
                                        !["sub"] = LaunchedAddress(pub)]
    /\ UNCHANGED <<mgrVars, threadVars, loopVars, reqVars, inVars, fault,
                   signalled, subVars>>

\* ------------------------------------------------------------------------
\* ZmqSocketChannel.add_io_state and drop_io_state, called by the owning
\* thread: the callback is built and given to self.ioloop.add_callback, an
\* AttributeError while self.ioloop is None.
PostOrRaise(c, cb) ==
    /\ Len(callbacks[c]) < MaxCallbacks
    /\ IF ioloop[c]
       THEN /\ PostCallback(c, cb)
            /\ Returns("none", 0)
       ELSE /\ Returns("AttributeError", 0)
            /\ UNCHANGED callbacks
    /\ UNCHANGED <<mgrVars, threadVars, ioloop, loop_stop, iostate, registered,
                   events, addrVars, reqVars, inVars, fault, kernelVars,
                   subVars>>

add_io_state(c, state) ==
    /\ Called("add_io_state")
    /\ PostOrRaise(c, <<"add", state>>)

drop_io_state(c, state) ==
    /\ Called("drop_io_state")
    /\ PostOrRaise(c, <<"drop", state>>)

\* ------------------------------------------------------------------------
\* SubSocketChannel.flush, called by any thread.  Each caller t runs
\*     stop_time = time.time() + timeout
\*     for i in xrange(2):
\*         self._flushed = False
\*         self.ioloop.add_callback(self._flush)
\*         while not self._flushed and time.time() < stop_time: sleep
\* one statement at a time; the flag _flushed belongs to the channel.
flush(t) ==
    /\ fpc[t] = "idle"
    /\ fpc' = [fpc EXCEPT ![t] = "reset"]
    /\ flush_i' = [flush_i EXCEPT ![t] = 0]
    /\ UNCHANGED <<mgrVars, threadVars, loopVars, addrVars, reqVars, inVars,
                   fault, kernelVars, ownerVars, flushed, timed_out, passes,
                   ferr, drain>>

\* self._flushed = False
FlushReset(t) ==
    /\ fpc[t] = "reset"
    /\ flushed' = FALSE
    /\ fpc' = [fpc EXCEPT ![t] = "post"]
    /\ UNCHANGED <<mgrVars, threadVars, loopVars, addrVars, reqVars, inVars,
                   fault, kernelVars, ownerVars, flush_i, timed_out, passes,
                   ferr, drain>>

\* self.ioloop.add_callback(self._flush), an AttributeError while
\* self.ioloop is None.
FlushPost(t) ==
    /\ fpc[t] = "post"
    /\ IF ioloop["sub"]
       THEN /\ PostCallback("sub", <<"flush", t>>)
            /\ fpc' = [fpc EXCEPT ![t] = "wait"]
            /\ UNCHANGED ferr
       ELSE /\ fpc' = [fpc EXCEPT ![t] = "done"]
            /\ ferr' = [ferr EXCEPT ![t] = "AttributeError"]
            /\ UNCHANGED callbacks
    /\ UNCHANGED <<mgrVars, threadVars, ioloop, loop_stop, iostate, registered,
                   events, addrVars, reqVars, inVars, fault, kernelVars,
                   ownerVars, flushed, flush_i, timed_out, passes, drain>>

\* The while test fails: the flag is set or the time is over.  The for loop
\* goes to its next turn, or flush returns.
FlushWaitOver(t) ==
    /\ fpc[t] = "wait"
    /\ flushed \/ timed_out[t]
    /\ IF flush_i[t] = 0
       THEN /\ flush_i' = [flush_i EXCEPT ![t] = 1]
            /\ fpc' = [fpc EXCEPT ![t] = "reset"]
       ELSE /\ fpc' = [fpc EXCEPT ![t] = "done"]
            /\ UNCHANGED flush_i
    /\ UNCHANGED <<mgrVars, threadVars, loopVars, addrVars, reqVars, inVars,
                   fault, kernelVars, ownerVars, flushed, timed_out, passes,
                   ferr, drain>>

\* time.time() reaches the caller's stop_time, at any point of the call.
FlushTimeout(t) ==
    /\ fpc[t] \in {"reset", "post", "wait"}
    /\ ~timed_out[t]
    /\ timed_out' = [timed_out EXCEPT ![t] = TRUE]
    /\ UNCHANGED <<mgrVars, threadVars, loopVars, addrVars, reqVars, inVars,
                   fault, kernelVars, ownerVars, flushed, fpc, flush_i,
                   passes, ferr, drain>>

\* ------------------------------------------------------------------------
\* Specifications.

\* The steps of a channel's thread.
ThreadStep(c) ==
    \/ RunSocket(c)
    \/ RunIOLoop(c)
    \/ RunAddHandler(c)
    \/ LoopIterate(c)
    \/ Poll(c)
    \/ HandleErr(c)
    \/ HandleEvents(c)

XReqSendStep ==
    \/ HandleSendGet
    \/ HandleSendSend
    \/ HandleSendEmpty
    \/ HandleSendDrop

\* The Request Channel: the owning thread starts and stops the channel and
\* submits requests, the channel's thread runs its loop, the kernel replies.
Next ==
    \/ ChannelStart("xreq")
    \/ ChannelStop("xreq")
    \/ ChannelStopLoop
    \/ ChannelJoin
    \/ execute
    \/ complete
    \/ object_info
    \/ QueueRequestAdd
    \/ ThreadStep("xreq")
    \/ XReqSendStep
    \/ XReqHandleRecv
    \/ KernelSend("xreq")

Spec == Init /\ [][Next]_vars

\* The Kernel Manager's listening state: start_listening and stop_listening
\* on the owning thread against the three channel threads, the address
\* property of each channel, and a kernel handle set and killed.
MgrNext ==
    \/ start_listening
    \/ stop_listening
    \/ ChannelStopLoop
    \/ ChannelJoin
    \/ \E c \in Chans, a \in AddrInputs : set_adresss(c, a)
    \/ \E c \in LoopChans :
          \/ RunSocket(c)
          \/ RunIOLoop(c)
          \/ RunAddHandler(c)
          \/ LoopIterate(c)
          \/ Poll(c)
          \/ HandleErr(c)
    \/ RepRun
    \/ set_kernel(1)
    \/ kill_kernel

MgrSpec == Init /\ [][MgrNext]_vars

\* The kernel process: set_kernel, start_kernel, kill_kernel and
\* signal_kernel, with the addresses start_kernel reads and writes and the
\* channel threads start_listening starts.
KernelNext ==
    \/ \E h \in Handles : set_kernel(h)
    \/ kill_kernel
    \/ \E signum \in Signals : signal_kernel(signum)
    \/ start_kernel
    \/ start_listening
    \/ \E c \in LoopChans, a \in AddrInputs : set_adresss(c, a)

KernelSpec == Init /\ [][KernelNext]_vars

\* The Broadcast Channel: the owning thread starts it, its thread runs the
\* loop and drains the socket, and the kernel publishes frames.
SubNext ==
    \/ ChannelStart("sub")
    \/ ThreadStep("sub")
    \/ SubHandleRecv
    \/ KernelSend("sub")

\* The Broadcast Channel with threads that call flush.
FlushNext ==
    \/ SubNext
    \/ \E t \in Callers : flush(t)
    \/ \E t \in Callers : FlushReset(t)
    \/ \E t \in Callers : FlushPost(t)
    \/ \E t \in Callers : FlushWaitOver(t)
    \/ \E t \in Callers : FlushTimeout(t)

FlushSpec == Init /\ [][FlushNext]_vars

SubSpec == Init /\ [][SubNext]_vars

\* The Broadcast Channel with an owning thread that adds and drops flags of
\* its interest mask.
IoNext ==
    \/ SubNext
    \/ \E state \in Flags : add_io_state("sub", state)
    \/ \E state \in Flags : drop_io_state("sub", state)

IoSpec == Init /\ [][IoNext]_vars

\* The Request Channel started and left running, with a socket that is
\* writable whenever the loop polls for it and never in error: the channel's
\* thread keeps taking steps, and a request begun on the owning thread is
\* carried through.
LoopRunning(c) ==
    /\ thread[c] = "alive"
    /\ pc[c] \notin {"init", "r_socket", "r_ioloop", "r_handler", "done"}

LivePoll == PollReturns("xreq", registered["xreq"] \cap {POLLOUT})

XReqThread ==
    \/ RunSocket("xreq")
    \/ RunIOLoop("xreq")
    \/ RunAddHandler("xreq")
    \/ LoopIterate("xreq")
    \/ LivePoll
    \/ HandleEvents("xreq")
    \/ XReqSendStep

LiveRequest ==
    /\ LoopRunning("xreq")
    /\ (execute \/ complete \/ object_info)

LiveStart ==
    /\ thread["xreq"] = "new"
    /\ ChannelStart("xreq")

LiveNext ==
    \/ LiveStart
    \/ LiveRequest
    \/ QueueRequestAdd
    \/ XReqThread

LiveSpec ==
    Init /\ [][LiveNext]_vars /\ WF_vars(XReqThread) /\ WF_vars(QueueRequestAdd)

\* ------------------------------------------------------------------------
\* Claims.

\* C1: the frames the channel thread sends on the wire are a prefix of the
\* messages enqueued by execute/complete/object_info, in call order: none is
\* sent twice, none out of order, none that was not enqueued.
C1_WireIsPrefixOfEnqueued == IsPrefix(wire, enqueued)

\* Two requests of different kinds have both been sent.
C1_Witness ==
    /\ Len(wire) >= 2
    /\ wire[1].msg_type # wire[2].msg_type

\* C2: on a started Request Channel whose loop keeps running and whose socket
\* keeps becoming writable, every request submitted is eventually sent as a
\* frame carrying the id of the submitted envelope.
C2_EveryRequestSent ==
    \A i \in 1..MaxMsgs :
        (Len(enqueued) >= i) ~> (Len(wire) >= i /\ wire[i].msg_id = enqueued[i].msg_id)

\* Everything but the owning thread's own bookkeeping of its calls.
stateVars == <<mgrVars, threadVars, loopVars, addrVars, reqVars, inVars,
               fault, kernelVars, subVars>>

\* C3: between calls, is_listening is true if and only if all three channel
\* threads have been started and none of them has been stopped.
C3_ListeningIffStartedNotStopped ==
    opc = "idle" =>
        (is_listening <=> /\ \A c \in Chans : thread[c] # "new"
                          /\ \A c \in Chans : ~stopped[c])

C5_StopListeningStopsAll ==
    [][(op = "stop_listening" /\ opc \in {"stop", "join"} /\ opc' = "idle") =>
          /\ err' = "none"
          /\ ~is_listening'
          /\ \A c \in Chans : thread'[c] # "alive"]_vars

\* C6: start_listening on a listening manager fails with AlreadyListening
\* and changes nothing: the flag, the channel threads, their loops and the
\* rest of the manager are as before.
C6_SecondStartChangesNothing ==
    [][(start_listening /\ is_listening) =>
          /\ err' = "AlreadyListening"
          /\ opc' = "idle"
          /\ UNCHANGED stateVars]_vars

\* The second start_listening has failed while the channel threads run.
C6_Witness ==
    /\ op = "start_listening" /\ err = "AlreadyListening"
    /\ is_listening
    /\ \E c \in Chans : is_alive(c)

\* C7: stop_listening on a manager that is not listening raises no error
\* and leaves is_listening, the channel threads and the kernel handle as
\* they were.
C7_StopWhenNotListening ==
    [][(stop_listening /\ ~is_listening) =>
          /\ err' = "none"
          /\ opc' = "idle"
          /\ UNCHANGED stateVars]_vars

\* stop_listening has returned on a manager that never listened and holds a
\* kernel.
C7_Witness ==
    /\ op = "stop_listening" /\ opc = "idle" /\ err = "none"
    /\ \A c \in Chans : thread[c] = "new"
    /\ has_kernel

\* C8: a dispatch with error-readiness set raises before any send or receive
\* and ends the channel's loop: once the handler has been left, nothing was
\* sent or received, and the channel's thread is no longer running its loop.
C8_ErrorEndsLoop ==
    [][\A c \in LoopChans :
         (pc[c] = "handle" /\ POLLERR \in events[c] /\ pc'[c] # "handle") =>
            /\ wire' = wire /\ command_queue' = command_queue
            /\ inbox' = inbox /\ handled' = handled
            /\ fault'[c]
            /\ thread'[c] = "dead"]_vars

\* C9: kill_kernel and signal_kernel with no kernel held fail with
\* NoKernelRunning, forward nothing to any process and leave the manager's
\* state unchanged.
C9_NoKernelCallsFail ==
    [][((kill_kernel \/ \E signum \in Signals : signal_kernel(signum))
          /\ kernel = NoKernel) =>
          /\ err' = "NoKernelRunning"
          /\ UNCHANGED stateVars]_vars

\* signal_kernel has failed after the kernel once held was killed.
C9_Witness ==
    /\ op = "signal_kernel" /\ err = "NoKernelRunning"
    /\ \E h \in Handles : procs[h] = "killed"

\* C10: has_kernel becomes true only by set_kernel or start_kernel, which
\* record a handle; signal_kernel on a held kernel succeeds, forwards the
\* signal and keeps the handle; has_kernel becomes false only by a
\* kill_kernel that succeeds, and that call kills the held process.
C10_HasKernel ==
    [][/\ (~has_kernel /\ has_kernel') => op' \in {"set_kernel", "start_kernel"}
       /\ (\E h \in Handles : set_kernel(h)) => (has_kernel' /\ err' = "none")
       /\ (start_kernel /\ err' = "none") => has_kernel'
       /\ (has_kernel /\ \E signum \in Signals : signal_kernel(signum)) =>
             /\ err' = "none"
             /\ kernel' = kernel
             /\ \E signum \in Signals : <<kernel, signum>> \in signalled'
       /\ (has_kernel /\ kill_kernel) => (~has_kernel' /\ err' = "none")
       /\ (has_kernel /\ ~has_kernel') =>
             /\ op' = "kill_kernel" /\ err' = "none"
             /\ procs'[kernel] = "killed"]_vars

\* A signal has been forwarded to the process adopted with set_kernel, and
\* the manager still holds it, after an earlier kernel was killed.
C10_Witness ==
    /\ op = "signal_kernel" /\ err = "none"
    /\ has_kernel
    /\ \E signum \in Signals : <<kernel, signum>> \in signalled
    /\ \E h \in Handles : procs[h] = "killed"

\* C11: start_kernel with a request or broadcast address whose host is not
\* the loopback host fails with RemoteLaunchUnsupported, launches nothing and
\* leaves the kernel handle and the addresses (and all else) unchanged.
C11_RemoteLaunchRefused ==
    [][(start_kernel /\ (get_address("xreq")[1] # LOCALHOST
                           \/ get_address("sub")[1] # LOCALHOST)) =>
          /\ err' = "RemoteLaunchUnsupported"
          /\ UNCHANGED stateVars]_vars

\* start_kernel has been refused for the broadcast address alone, on a
\* manager that holds a kernel.
C11_Witness ==
    /\ op = "start_kernel" /\ err = "RemoteLaunchUnsupported"
    /\ get_address("xreq")[1] = LOCALHOST
    /\ get_address("sub")[1] # LOCALHOST
    /\ has_kernel

C14_FlushWaitsForOwnMarkers ==
    \A t \in Callers :
        (fpc[t] = "done" /\ ferr[t] = "none") =>
            (timed_out[t] \/ passes[t] = 2)

\* Every frame that has arrived, numbered in arrival order.
Arrived(c) == [i \in 1..FramesSeen(c) |-> i]

\* The sub channel's _handle_recv returns to the loop.
SubRecvReturns == pc["sub"] = "recv" /\ pc'["sub"] = "loop"

OneSendPerDispatch ==
    /\ (pc'["xreq"] = "send_get" /\ pc["xreq"] # "send_get") =>
           pc["xreq"] = "handle"
    /\ (pc'["xreq"] = "send_send" /\ pc["xreq"] # "send_send") =>
           (pc["xreq"] = "send_get" /\ command_queue # <<>>)
    /\ (wire' # wire) =>
           /\ pc["xreq"] = "send_send" /\ pc'["xreq"] # "send_send"
           /\ wire' = Append(wire, send_msg)

\* C16: a writable dispatch sends at most one message, none when the queue
\* is empty at the get; and if from some point on the queue stays empty,
\* then from some point on POLLOUT stays out of the channel's iostate.
C16_PolloutDroppedWhenIdle ==
    /\ [][OneSendPerDispatch]_vars
    /\ (<>[](command_queue = <<>>)) => <>[](POLLOUT \notin iostate["xreq"])

\* Every request made has been sent and the loop, still running, has
\* dropped POLLOUT again.
C16_Witness ==
    /\ LoopRunning("xreq")
    /\ Len(wire) = MaxMsgs /\ command_queue = <<>>
    /\ callbacks["xreq"] = <<>>
    /\ iostate["xreq"] = {POLLIN, POLLERR}

\* The mask after the adds and drops of cbs have taken effect, one after the
\* other in the order of cbs.
RECURSIVE InPostingOrder(_, _)
InPostingOrder(cbs, st) ==
    IF cbs = <<>> THEN st
    ELSE InPostingOrder(Tail(cbs),
             IF Head(cbs)[1] = "add" THEN st \cup {Head(cbs)[2]}
             ELSE IF Head(cbs)[1] = "drop" THEN st \ {Head(cbs)[2]}
             ELSE st)

InHandleSend ==
    pc["xreq"] \in {"send_get", "send_send", "send_empty", "send_drop"}

\* C18: while the request channel's loop runs, no posted callback is
\* pending, the channel thread is outside _handle_send and the owning thread
\* is outside _queue_request, a message waiting in command_queue implies
\* that POLLOUT is in the channel's iostate.
C18_QueuedImpliesPollout ==
    (/\ LoopRunning("xreq")
     /\ callbacks["xreq"] = <<>>
     /\ ~InHandleSend
     /\ opc = "idle") =>
        (command_queue # <<>> => POLLOUT \in iostate["xreq"])

\* C19: start_kernel is all or nothing: a call that fails with an error has
\* launched no process and leaves the kernel handle and the addresses as
\* they were before the call.
C19_StartKernelAllOrNothing ==
    [][(start_kernel /\ err' # "none") =>
          UNCHANGED <<kernel, procs, address>>]_vars

\* C20: no orphan: every process that start_kernel launched or set_kernel
\* adopted and that kill_kernel has not killed is the one the manager holds.
C20_NoOrphan ==
    \A h \in Handles : procs[h] = "live" => kernel = h
====
